---- MODULE Spec2Model ----
(***************************************************************************)
(* Multi-timeframe screening pipeline of src/main.py:                      *)
(*   fetch_market_data, check_1h_conditions, check_15m_conditions,         *)
(*   check_5m_conditions and filter_by_conditions.                         *)
(*                                                                         *)
(* Numeric conventions.  Prices, volumes and indicator values are floats   *)
(* in the program; here they are exact fixed-point numbers held in tenths  *)
(* (1050 stands for 105.0), so the literals 40, 70, 1.5 of the rules are   *)
(* written Tenths(40), Tenths(70) and 15.  The deviation from MA20 is a    *)
(* quotient; it is kept as an exact fraction, or as one of the IEEE        *)
(* specials that numpy's float64 division by zero produces.                *)
(*                                                                         *)
(* The data source (ccxt) and the indicator library (pandas_ta) are        *)
(* outside the repository.  Their answers are inputs of the model: a       *)
(* source answer says whether the call raised, how many rows came back,    *)
(* the clock and the last bar's timestamp, which OHLCV columns hold a      *)
(* non-numeric value, whether the indicator library raised, which rows     *)
(* beyond the warm-up carry an undefined indicator value, and the values   *)
(* on the latest surviving bar.                                            *)
(***************************************************************************)
EXTENDS Integers, Sequences, FiniteSets, TLC

VARIABLES
    pc,              \* position in filter_by_conditions: "loop", "report" or "done"
    i,               \* index into timeframes of the next loop iteration
    results,         \* the results dict of filter_by_conditions (timeframe -> verdict)
    all_conditions_met,
    returned,        \* the value filter_by_conditions returned (meaningful at "done")
    printed,         \* the per-timeframe report it printed (meaningful at "done")
    inputs,          \* the source answer each timeframe's fetch received
    fetchCount,      \* number of fetch_market_data calls per timeframe
    checkCount,      \* number of check_func calls per timeframe
    raised,          \* TRUE if an exception left filter_by_conditions
    call,            \* one loop iteration on an arbitrary source answer (input and outcome)
    rule             \* one rule evaluation on an arbitrary latest bar (input and outcome)

vars == <<pc, i, results, all_conditions_met, returned, printed, inputs,
          fetchCount, checkCount, raised, call, rule>>

----------------------------------------------------------------------------
(* Bounds of the model *)

\* largest number of rows the data source returns (the program asks for limit + 50)
MaxRows == 152

----------------------------------------------------------------------------
(* Program constants *)

DefaultLimit == 100
ExtraRows == 50
MacdSlow == 26
MacdSignal == 9
RsiLength == 7

Tenths(x) == x * 10

\* the iteration order of the timeframes dict
timeframes == <<"1h", "15m", "5m">>

Timeframe == {"1h", "15m", "5m"}

max_delay(timeframe) ==
    CASE timeframe = "5m"  -> 5 * 60 * 1000
      [] timeframe = "15m" -> 15 * 60 * 1000
      [] timeframe = "1h"  -> 60 * 60 * 1000

ohlcvColumns == <<"open", "high", "low", "close", "volume">>

----------------------------------------------------------------------------
(* Values *)

\* A latest bar that satisfies all three rules (values in tenths).
PassBar ==
    [close |-> 1010, MA5 |-> 1030, MA10 |-> 1020, MA20 |-> 1000,
     MACD_hist |-> 15, RSI_7 |-> 500, RSI_7_prev |-> 450,
     volume_MA5 |-> 1200, volume_MA10 |-> 1000, volume_ratio |-> 20]

\* The None that fetch_market_data returns instead of a DataFrame.
NoneDf == [isNone |-> TRUE, rows |-> <<>>, latest |-> PassBar]

Abs(x) == IF x < 0 THEN -x ELSE x

Sign(x) == IF x < 0 THEN -1 ELSE 1

----------------------------------------------------------------------------
(* fetch_market_data *)

\* number of leading rows on which the column is undefined (NaN)
LeadingNaN(col) ==
    CASE col = "MACD_hist"    -> (MacdSlow - 1) + (MacdSignal - 1)
      [] col = "RSI_7"        -> RsiLength
      [] col = "RSI_7_prev"   -> RsiLength + 1
      [] col = "MA5"          -> 5 - 1
      [] col = "MA10"         -> 10 - 1
      [] col = "MA20"         -> 20 - 1
      [] col = "volume_MA5"   -> 5 - 1
      [] col = "volume_MA10"  -> 10 - 1
      [] col = "volume_ratio" -> 5
      [] OTHER                -> 0

indicatorColumns ==
    {"MACD_hist", "RSI_7", "RSI_7_prev", "MA5", "MA10", "MA20",
     "volume_MA5", "volume_MA10", "volume_ratio"}

\* rows 1..WarmupRows carry a NaN in some indicator column
WarmupRows == CHOOSE w \in {LeadingNaN(c) : c \in indicatorColumns} :
                  \A c \in indicatorColumns : LeadingNaN(c) <= w

\* row r of the frame (1-based position in the fetched rows) holds a NaN
HasNaN(a, r) == r <= WarmupRows \/ r \in a.extraNaN

\* the row-count test against the number of rows requested
TooFewRowsOffByExtra(n, limit) == n = 0 \/ n < limit + ExtraRows
\* not ohlcv or len(ohlcv) < limit
TooFewRows(n, limit) == n = 0 \/ n < limit

\* the staleness test with >= in place of >
IsStaleInclusive(timeframe, current_time, last_candle_time) ==
    (current_time - last_candle_time) >= max_delay(timeframe)
\* (current_time - last_candle_time) > max_delay[timeframe]
IsStale(timeframe, current_time, last_candle_time) ==
    (current_time - last_candle_time) > max_delay(timeframe)

\* the first column, in the order of the validation loop, holding a null after to_numeric
RECURSIVE FirstBadColFrom(_, _)
FirstBadColFrom(k, bad) ==
    IF k > Len(ohlcvColumns) THEN "none"
    ELSE IF ohlcvColumns[k] \in bad THEN ohlcvColumns[k]
    ELSE FirstBadColFrom(k + 1, bad)

FirstBadCol(bad) == FirstBadColFrom(1, bad)

\* df.dropna(): the rows without a NaN, in their original order
dropna(a) == SelectSeq([r \in 1..a.n |-> r], LAMBDA r : ~HasNaN(a, r))

\* len(df) < limit after dropna
TooFewValid(df, limit) == Len(df) < limit

\* the first limit rows instead of the last
head(df, limit) == SubSeq(df, 1, limit)
\* df.tail(limit)
tail(df, limit) == SubSeq(df, Len(df) - limit + 1, Len(df))

Fail(msg, gates) ==
    [df |-> NoneDf, msg |-> msg, gates |-> gates, raised |-> FALSE]

\* the try block with the field validation placed before the freshness check
try_fetchValidateFirst(timeframe, limit, a) ==
    IF a.raises
    THEN [df |-> NoneDf, msg |-> "exception", gates |-> <<"fetch">>, raised |-> TRUE]
    ELSE IF TooFewRows(a.n, limit) THEN Fail("insufficient", <<"fetch", "rowcount">>)
    ELSE IF FirstBadCol(a.badCols) # "none"
    THEN Fail("invalid", <<"fetch", "rowcount", "validate">>)
    ELSE IF IsStale(timeframe, a.current_time, a.last_candle_time)
    THEN Fail("stale", <<"fetch", "rowcount", "validate", "freshness">>)
    ELSE IF a.indErr
    THEN Fail("indicator_error",
              <<"fetch", "rowcount", "validate", "freshness", "indicators">>)
    ELSE LET df == dropna(a) IN
         IF TooFewValid(df, limit)
         THEN Fail("warmup",
                   <<"fetch", "rowcount", "validate", "freshness", "indicators", "warmup">>)
         ELSE [df |-> [isNone |-> FALSE, rows |-> tail(df, limit), latest |-> a.latest],
               msg |-> "ok",
               gates |-> <<"fetch", "rowcount", "validate", "freshness", "indicators", "warmup">>,
               raised |-> FALSE]

\* The try block of fetch_market_data.  msg is the warning printed, gates the
\* list of stages entered; raised says that an exception left the block.
try_fetch(timeframe, limit, a) ==
    IF a.raises
    THEN [df |-> NoneDf, msg |-> "exception", gates |-> <<"fetch">>, raised |-> TRUE]
    ELSE IF TooFewRows(a.n, limit) THEN Fail("insufficient", <<"fetch", "rowcount">>)
    ELSE IF IsStale(timeframe, a.current_time, a.last_candle_time)
    THEN Fail("stale", <<"fetch", "rowcount", "freshness">>)
    ELSE IF FirstBadCol(a.badCols) # "none"
    THEN Fail("invalid", <<"fetch", "rowcount", "freshness", "validate">>)
    ELSE IF a.indErr
    THEN Fail("indicator_error",
              <<"fetch", "rowcount", "freshness", "validate", "indicators">>)
    ELSE LET df == dropna(a) IN
         IF TooFewValid(df, limit)
         THEN Fail("warmup",
                   <<"fetch", "rowcount", "freshness", "validate", "indicators", "warmup">>)
         ELSE [df |-> [isNone |-> FALSE, rows |-> tail(df, limit), latest |-> a.latest],
               msg |-> "ok",
               gates |-> <<"fetch", "rowcount", "freshness", "validate", "indicators", "warmup">>,
               raised |-> FALSE]

\* the try block under the outer except clause, which prints and returns None
fetch_market_data(timeframe, limit, a) ==
    LET r == try_fetch(timeframe, limit, a) IN
    IF r.raised THEN Fail("error", r.gates) ELSE r

----------------------------------------------------------------------------
(* The timeframe rules *)

\* the deviation with a zero MA20 read as no deviation
ma20_deviationZeroAsZero(latest, fpmode) ==
    IF latest.MA20 = 0 THEN [kind |-> "fin", num |-> 0, den |-> 1]
    ELSE [kind |-> "fin",
          num |-> (latest.close - latest.MA20) * 100 * Sign(latest.MA20),
          den |-> Abs(latest.MA20)]
\* (latest['close'] - latest['MA20']) / latest['MA20'] * 100 as an exact
\* fraction num/den with den > 0.  A zero MA20 gives what float64 division
\* gives (inf, -inf or nan) or, where floating-point warnings are errors,
\* raises.
ma20_deviation(latest, fpmode) ==
    IF latest.MA20 = 0
    THEN IF fpmode = "raise" THEN [kind |-> "raise", num |-> 0, den |-> 1]
         ELSE IF latest.close > 0 THEN [kind |-> "inf", num |-> 0, den |-> 1]
         ELSE IF latest.close < 0 THEN [kind |-> "-inf", num |-> 0, den |-> 1]
         ELSE [kind |-> "nan", num |-> 0, den |-> 1]
    ELSE [kind |-> "fin",
          num |-> (latest.close - latest.MA20) * 100 * Sign(latest.MA20),
          den |-> Abs(latest.MA20)]

\* d < k for a deviation d and an integer k
LessThan(d, k) ==
    \/ d.kind = "-inf"
    \/ d.kind = "fin" /\ d.num < k * d.den

\* the 1h conjunction without the deviation clause
clauses_1hNoDeviation(latest, dev) ==
    /\ latest.close > latest.MA20
    /\ latest.MA10 > latest.MA20
    /\ latest.MACD_hist > 0
    /\ latest.volume_MA5 > latest.volume_MA10
\* the returned conjunction of check_1h_conditions
clauses_1h(latest, dev) ==
    /\ latest.close > latest.MA20
    /\ latest.MA10 > latest.MA20
    /\ latest.MACD_hist > 0
    /\ LessThan(dev, 2)
    /\ latest.volume_MA5 > latest.volume_MA10

check_1h_conditions(df, fpmode) ==
    IF df.isNone \/ Len(df.rows) = 0 THEN [ret |-> FALSE, raised |-> FALSE]
    ELSE LET latest == df.latest
             ma20_dev == ma20_deviation(latest, fpmode)
         IN  IF ma20_dev.kind = "raise"
             THEN [ret |-> FALSE, raised |-> FALSE]
             ELSE [ret |-> clauses_1h(latest, ma20_dev), raised |-> FALSE]

\* the 15m conjunction with inclusive thresholds
clauses_15mInclusive(latest) ==
    /\ latest.MA5 > latest.MA10
    /\ Tenths(40) <= latest.RSI_7 /\ latest.RSI_7 <= Tenths(70)
    /\ latest.volume_ratio >= 15
    /\ latest.volume_MA5 > latest.volume_MA10
\* the returned conjunction of check_15m_conditions
clauses_15m(latest) ==
    /\ latest.MA5 > latest.MA10
    /\ Tenths(40) < latest.RSI_7 /\ latest.RSI_7 < Tenths(70)
    /\ latest.volume_ratio > 15
    /\ latest.volume_MA5 > latest.volume_MA10

check_15m_conditions(df) ==
    IF df.isNone \/ Len(df.rows) = 0 THEN [ret |-> FALSE, raised |-> FALSE]
    ELSE [ret |-> clauses_15m(df.latest), raised |-> FALSE]

\* the returned conjunction of check_5m_conditions
clauses_5m(latest) ==
    /\ latest.RSI_7 > latest.RSI_7_prev
    /\ latest.MACD_hist > 0

check_5m_conditions(df) ==
    IF df.isNone \/ Len(df.rows) = 0 THEN [ret |-> FALSE, raised |-> FALSE]
    ELSE [ret |-> clauses_5m(df.latest), raised |-> FALSE]

\* timeframes[timeframe](df)
check_func(timeframe, df, fpmode) ==
    CASE timeframe = "1h"  -> check_1h_conditions(df, fpmode)
      [] timeframe = "15m" -> check_15m_conditions(df)
      [] timeframe = "5m"  -> check_5m_conditions(df)

----------------------------------------------------------------------------
(* filter_by_conditions *)

\* the iteration with the verdict tied to the earlier timeframes' outcome
iterationStickyFailure(timeframe, a, met) ==
    LET f == fetch_market_data(timeframe, DefaultLimit, a) IN
    IF f.raised
    THEN [verdict |-> FALSE, met |-> met, checked |-> FALSE, raised |-> TRUE, fetch |-> f]
    ELSE IF ~f.df.isNone
    THEN LET c == check_func(timeframe, f.df, a.fpmode) IN
         [verdict |-> c.ret /\ met, met |-> met /\ c.ret, checked |-> TRUE,
          raised |-> c.raised, fetch |-> f]
    ELSE [verdict |-> FALSE, met |-> FALSE, checked |-> FALSE, raised |-> FALSE, fetch |-> f]

\* the iteration with an unavailable timeframe left out of the conjunction
iterationSkipsUnavailable(timeframe, a, met) ==
    LET f == fetch_market_data(timeframe, DefaultLimit, a) IN
    IF f.raised
    THEN [verdict |-> FALSE, met |-> met, checked |-> FALSE, raised |-> TRUE, fetch |-> f]
    ELSE IF ~f.df.isNone
    THEN LET c == check_func(timeframe, f.df, a.fpmode) IN
         [verdict |-> c.ret, met |-> met /\ c.ret, checked |-> TRUE,
          raised |-> c.raised, fetch |-> f]
    ELSE [verdict |-> FALSE, met |-> met, checked |-> FALSE, raised |-> FALSE, fetch |-> f]

\* One iteration of the loop on the source answer a, with all_conditions_met = met:
\* the verdict stored in results[timeframe], the new all_conditions_met, whether
\* check_func was called, and whether an exception left the iteration.
iteration(timeframe, a, met) ==
    LET f == fetch_market_data(timeframe, DefaultLimit, a) IN
    IF f.raised
    THEN [verdict |-> FALSE, met |-> met, checked |-> FALSE, raised |-> TRUE, fetch |-> f]
    ELSE IF ~f.df.isNone
    THEN LET c == check_func(timeframe, f.df, a.fpmode) IN
         [verdict |-> c.ret, met |-> met /\ c.ret, checked |-> TRUE,
          raised |-> c.raised, fetch |-> f]
    ELSE [verdict |-> FALSE, met |-> FALSE, checked |-> FALSE, raised |-> FALSE, fetch |-> f]

\* the loop leaving at the first false verdict
after_iterationEarlyExit(k, met) ==
    IF k < Len(timeframes) /\ met THEN "loop" ELSE "report"
\* where the for loop goes after iteration k
after_iteration(k, met) ==
    IF k < Len(timeframes) THEN "loop" ELSE "report"

----------------------------------------------------------------------------
(* Source answers *)

\* the bar of the end-to-end scenario: close=105, MA20=100, MA10=102,
\* MACD_hist=1.5, volume_MA5=120, volume_MA10=100
ScenarioBar == [PassBar EXCEPT !.close = 1050]

\* a bar with a zero MA20 and every other 1h clause satisfied
ZeroMa20Bar == [PassBar EXCEPT !.MA20 = 0]

\* a bar that fails all three rules
FailBar == [PassBar EXCEPT !.MACD_hist = -5, !.volume_ratio = 15]

ClockValues == {4000000}

\* an answer that passes every gate of fetch_market_data, its last bar exactly
\* max_delay old
Clean(timeframe, bar) ==
    LET now == CHOOSE t \in ClockValues : TRUE IN
    [raises |-> FALSE, n |-> DefaultLimit + ExtraRows,
     current_time |-> now, last_candle_time |-> now - max_delay(timeframe),
     badCols |-> {}, indErr |-> FALSE, extraNaN |-> {},
     latest |-> bar, fpmode |-> "ieee"]

\* the answers filter_by_conditions is run on: every kind of failure, and bars
\* that pass and fail the rules
PipelineAnswers(timeframe) ==
    LET ok == Clean(timeframe, PassBar) IN
    {Clean(timeframe, b) : b \in {PassBar, ScenarioBar, ZeroMa20Bar, FailBar}}
    \cup {[Clean(timeframe, ZeroMa20Bar) EXCEPT !.fpmode = "raise"],
          [ok EXCEPT !.raises = TRUE],
          [ok EXCEPT !.n = DefaultLimit - 1],
          [ok EXCEPT !.n = DefaultLimit + WarmupRows - 1],
          [ok EXCEPT !.last_candle_time = @ - 1],
          [ok EXCEPT !.badCols = {"close"}],
          [ok EXCEPT !.indErr = TRUE]}

\* ages of the last bar: every bound, one millisecond over it, and a fresh bar
Delays == {0} \cup {max_delay(t) : t \in Timeframe} \cup {max_delay(t) + 1 : t \in Timeframe}

\* rows beyond the warm-up on which an indicator is undefined (a 0/0 in
\* volume_ratio or RSI_7): none, one in the middle, or that one and the last row
ExtraNaN(k, n) ==
    CASE k = "none"   -> {}
      [] k = "middle" -> {WarmupRows + 3} \cap (1..n)
      [] OTHER        -> {WarmupRows + 3, n} \cap (1..n)

\* the answers a single fetch is run on: every row count up to MaxRows
FetchAnswers(timeframe) ==
    LET ok == Clean(timeframe, PassBar) IN
    {[ok EXCEPT !.n = n, !.last_candle_time = ok.current_time - d,
                !.badCols = bad, !.indErr = ie, !.extraNaN = ExtraNaN(k, n)] :
        n \in 0..MaxRows, d \in Delays,
        bad \in {{}, {"close"}, {"high", "volume"}}, ie \in BOOLEAN,
        k \in {"none", "middle", "middle and last"}}
    \cup {[ok EXCEPT !.raises = TRUE, !.n = 0]}

Bars1h ==
    {[PassBar EXCEPT !.close = c, !.MA20 = m20, !.MA10 = m10,
                     !.MACD_hist = h, !.volume_MA5 = v] :
        c \in {-10, 0, 1000, 1010, 1020, 1050}, m20 \in {-20, 0, 1000},
        m10 \in {-20, 0, 1000, 1020}, h \in {-5, 0, 15}, v \in {900, 1000, 1200}}

Bars15m ==
    {[PassBar EXCEPT !.MA5 = m5, !.RSI_7 = r, !.volume_ratio = q, !.volume_MA5 = v] :
        m5 \in {1010, 1020, 1030}, r \in {390, 400, 401, 500, 699, 700, 710},
        q \in {14, 15, 16, 20}, v \in {900, 1000, 1200}}

Bars5m ==
    {[PassBar EXCEPT !.RSI_7 = r, !.RSI_7_prev = p, !.MACD_hist = h] :
        r \in {390, 400, 401, 500, 699, 700, 710}, p \in {400, 500, 700},
        h \in {-5, 0, 15}}

\* the frames a rule is called on: None, an empty frame, a frame of limit rows
Frames(bars) ==
    {NoneDf, [isNone |-> FALSE, rows |-> <<>>, latest |-> PassBar]}
    \cup {[isNone |-> FALSE, rows |-> <<1>>, latest |-> b] : b \in bars}

----------------------------------------------------------------------------
(* State machine *)

NoResults == [t \in {} |-> FALSE]

Init ==
    /\ pc = "loop"
    /\ i = 1
    /\ results = NoResults
    /\ all_conditions_met = TRUE
    /\ returned = FALSE
    /\ printed = NoResults
    /\ inputs = [t \in {} |-> Clean("1h", PassBar)]
    /\ fetchCount = [t \in Timeframe |-> 0]
    /\ checkCount = [t \in Timeframe |-> 0]
    /\ raised = FALSE
    /\ call = [active |-> FALSE, timeframe |-> "1h", a |-> Clean("1h", PassBar),
               out |-> iteration("1h", Clean("1h", PassBar), TRUE)]
    /\ rule = [active |-> FALSE, timeframe |-> "1h", df |-> NoneDf, fpmode |-> "ieee",
               out |-> check_func("1h", NoneDf, "ieee")]

\* one pass through the body of the for loop of filter_by_conditions
Iterate ==
    /\ pc = "loop"
    /\ \E a \in PipelineAnswers(timeframes[i]) :
        LET timeframe == timeframes[i]
            r == iteration(timeframe, a, all_conditions_met)
        IN  /\ inputs' = (timeframe :> a) @@ inputs
            /\ fetchCount' = [fetchCount EXCEPT ![timeframe] = @ + 1]
            /\ checkCount' = [checkCount EXCEPT ![timeframe] = @ + (IF r.checked THEN 1 ELSE 0)]
            /\ IF r.raised
               THEN /\ raised' = TRUE
                    /\ pc' = "done"
                    /\ UNCHANGED <<i, results, all_conditions_met>>
               ELSE /\ results' = (timeframe :> r.verdict) @@ results
                    /\ all_conditions_met' = r.met
                    /\ i' = i + 1
                    /\ pc' = after_iteration(i, r.met)
                    /\ UNCHANGED raised
    /\ UNCHANGED <<returned, printed, call, rule>>

\* the report printed after the loop and the return statement
Report ==
    /\ pc = "report"
    /\ printed' = results
    /\ returned' = all_conditions_met
    /\ pc' = "done"
    /\ UNCHANGED <<i, results, all_conditions_met, inputs, fetchCount, checkCount,
                   raised, call, rule>>

Next == Iterate \/ Report

Spec == Init /\ [][Next]_vars

\* one loop iteration on any answer of the data source
FetchCall ==
    /\ ~call.active
    /\ \E timeframe \in Timeframe : \E a \in FetchAnswers(timeframe) :
        call' = [active |-> TRUE, timeframe |-> timeframe, a |-> a,
                 out |-> iteration(timeframe, a, TRUE)]
    /\ UNCHANGED <<pc, i, results, all_conditions_met, returned, printed, inputs,
                   fetchCount, checkCount, raised, rule>>

NextFetch == FetchCall

SpecFetch == Init /\ [][NextFetch]_vars

RuleCall(timeframe, bars) ==
    /\ ~rule.active
    /\ \E df \in Frames(bars) : \E fpmode \in {"ieee", "raise"} :
        rule' = [active |-> TRUE, timeframe |-> timeframe, df |-> df, fpmode |-> fpmode,
                 out |-> check_func(timeframe, df, fpmode)]
    /\ UNCHANGED <<pc, i, results, all_conditions_met, returned, printed, inputs,
                   fetchCount, checkCount, raised, call>>

Check1h == RuleCall("1h", Bars1h)

Check15m == RuleCall("15m", Bars15m)

Check5m == RuleCall("5m", Bars5m)

NextRules == Check1h \/ Check15m \/ Check5m

SpecRules == Init /\ [][NextRules]_vars

----------------------------------------------------------------------------
(* Properties *)

\* the age of the last bar at the time of the fetch
Age(a) == a.current_time - a.last_candle_time

\* the rows of an answer that carry no NaN
Survivors(a) == {r \in 1..a.n : r > WarmupRows /\ r \notin a.extraNaN}

\* the answer fails one of the stages of fetch_market_data for the timeframe
FailsAStage(timeframe, a) ==
    \/ a.raises
    \/ a.n < DefaultLimit
    \/ Age(a) > max_delay(timeframe)
    \/ a.badCols # {}
    \/ a.indErr
    \/ Cardinality(Survivors(a)) < DefaultLimit

\* the verdict of a timeframe evaluated on its own answer alone
VerdictAlone(timeframe, a) ==
    LET f == fetch_market_data(timeframe, DefaultLimit, a) IN
    ~f.df.isNone /\ check_func(timeframe, f.df, a.fpmode).ret

IsPrefix(s, t) == Len(s) <= Len(t) /\ \A k \in 1..Len(s) : s[k] = t[k]

\* C1: when filter_by_conditions has returned, the value it returned is true
\* if and only if all three verdicts recorded in results are true, whatever
\* the outcome (unavailable, satisfied, not satisfied) on each timeframe.
C1_ReturnIsConjunction ==
    pc = "done" =>
        /\ ~raised
        /\ DOMAIN results = Timeframe
        /\ returned <=> (\A t \in Timeframe : results[t])

C1_Witness ==
    /\ pc = "done"
    /\ returned
    /\ \A t \in Timeframe : results[t]

\* C2: a failure at any stage of one timeframe records that timeframe's
\* verdict as false, never leaves filter_by_conditions as an exception, and
\* every recorded verdict is the one the timeframe gets from its own answer
\* alone; when 15m has too few rows while 1h and 5m pass, the report is
\* {1h: true, 15m: false, 5m: true} and the returned value is false.
C2_FailureIsLocal ==
    /\ ~raised
    /\ \A t \in DOMAIN results :
        /\ results[t] = VerdictAlone(t, inputs[t])
        /\ FailsAStage(t, inputs[t]) => results[t] = FALSE
    /\ ( /\ pc = "done"
         /\ inputs["1h"] = Clean("1h", PassBar)
         /\ inputs["15m"].n < DefaultLimit
         /\ inputs["5m"] = Clean("5m", PassBar) )
       => /\ printed = [t \in Timeframe |-> t # "15m"]
          /\ returned = FALSE

C2_Witness ==
    /\ pc = "done"
    /\ ~inputs["15m"].raises /\ inputs["15m"].n < DefaultLimit
    /\ printed = [t \in Timeframe |-> t # "15m"]
    /\ returned = FALSE

\* C3: no early exit: every timeframe is fetched at most once, and once the
\* loop is over each of 1h, 15m and 5m has been fetched exactly once, has been
\* checked exactly once if its data was available, and has an entry in
\* results (and in the printed report), even after a false verdict.
C3_NoEarlyExit ==
    /\ \A t \in Timeframe : fetchCount[t] <= 1 /\ checkCount[t] <= fetchCount[t]
    /\ pc \in {"report", "done"} =>
        /\ \A t \in Timeframe : fetchCount[t] = 1
        /\ DOMAIN results = Timeframe
        /\ \A t \in Timeframe :
            checkCount[t] = 1 <=> ~fetch_market_data(t, DefaultLimit, inputs[t]).df.isNone
    /\ pc = "done" => printed = results

C3_Witness ==
    /\ pc = "done"
    /\ results["1h"] = FALSE
    /\ fetchCount["15m"] = 1 /\ fetchCount["5m"] = 1
    /\ results["5m"] = TRUE

\* C4: a series whose last bar is exactly max_delay old is not rejected as
\* stale (and is returned when every other gate passes); a series one
\* millisecond older is rejected: no data, verdict false, and the warning is
\* the staleness warning whenever the row-count gate was passed.
C4_StalenessBoundary ==
    call.active /\ ~call.a.raises =>
        LET bound == CASE call.timeframe = "1h"  -> 3600000
                       [] call.timeframe = "15m" -> 900000
                       [] call.timeframe = "5m"  -> 300000
        IN
        /\ Age(call.a) = bound =>
            /\ call.out.fetch.msg # "stale"
            /\ ( /\ call.a.n >= DefaultLimit
                 /\ call.a.badCols = {} /\ ~call.a.indErr
                 /\ Cardinality(Survivors(call.a)) >= DefaultLimit )
               => ~call.out.fetch.df.isNone
        /\ Age(call.a) = bound + 1 =>
            /\ call.out.fetch.df.isNone
            /\ call.out.verdict = FALSE
            /\ call.a.n >= DefaultLimit => call.out.fetch.msg = "stale"

C4_Witness ==
    /\ call.active
    /\ call.timeframe = "1h"
    /\ Age(call.a) = 3600000
    /\ ~call.out.fetch.df.isNone

\* C5 as stated: fewer than limit + 50 rows always makes fetch_market_data
\* return no data.
C5_FewerThanLimitPlus50Fails ==
    call.active /\ call.a.n < DefaultLimit + ExtraRows => call.out.fetch.df.isNone

\* C5 amended: fewer than limit rows always makes fetch_market_data return no
\* data at the row-count gate; with limit or more rows the row-count gate
\* passes, and data is returned only if limit rows survive the warm-up drop.
C5_FewerThanLimitFails ==
    call.active /\ ~call.a.raises =>
        /\ call.a.n < DefaultLimit =>
            call.out.fetch.df.isNone /\ call.out.fetch.msg = "insufficient"
        /\ call.a.n >= DefaultLimit => call.out.fetch.msg # "insufficient"
        /\ ~call.out.fetch.df.isNone => call.a.n >= DefaultLimit + WarmupRows

C5_Witness ==
    /\ call.active
    /\ ~call.a.raises
    /\ call.a.n = DefaultLimit - 1
    /\ call.out.fetch.df.isNone

\* C6: on a latest 1h bar whose MA20 is zero, check_1h_conditions returns
\* false and raises nothing, whatever the other values are.
C6_ZeroMa20Fails ==
    ( /\ rule.active
      /\ rule.timeframe = "1h"
      /\ ~rule.df.isNone /\ rule.df.rows # <<>>
      /\ rule.df.latest.MA20 = 0 )
    => rule.out.ret = FALSE /\ ~rule.out.raised

C6_Witness ==
    /\ rule.active
    /\ rule.timeframe = "1h"
    /\ ~rule.df.isNone /\ rule.df.rows # <<>>
    /\ rule.fpmode = "ieee"
    /\ rule.df.latest.MA20 = 0
    /\ rule.df.latest.close > 0
    /\ rule.df.latest.MA10 > 0
    /\ rule.df.latest.MACD_hist > 0
    /\ rule.df.latest.volume_MA5 > rule.df.latest.volume_MA10
    /\ rule.out.ret = FALSE

\* C7: for the 1h bar close=105, MA20=100, MA10=102, MACD_hist=1.5,
\* volume_MA5=120, volume_MA10=100 the deviation is 5, every other 1h clause
\* holds, the 1h verdict is false and filter_by_conditions returns false
\* whatever the 15m and 5m verdicts are.
C7_ScenarioFails ==
    /\ ScenarioBar.close = Tenths(105) /\ ScenarioBar.MA20 = Tenths(100)
    /\ ScenarioBar.MA10 = Tenths(102) /\ ScenarioBar.MACD_hist = 15
    /\ ScenarioBar.volume_MA5 = Tenths(120) /\ ScenarioBar.volume_MA10 = Tenths(100)
    /\ LET d == ma20_deviation(ScenarioBar, "ieee") IN d.kind = "fin" /\ d.num = 5 * d.den
    /\ ScenarioBar.close > ScenarioBar.MA20
    /\ ScenarioBar.MA10 > ScenarioBar.MA20
    /\ ScenarioBar.MACD_hist > 0
    /\ ScenarioBar.volume_MA5 > ScenarioBar.volume_MA10
    /\ ("1h" \in DOMAIN results /\ inputs["1h"] = Clean("1h", ScenarioBar)) =>
        /\ results["1h"] = FALSE
        /\ ~all_conditions_met
        /\ pc = "done" => returned = FALSE

C7_Witness ==
    /\ pc = "done"
    /\ inputs["1h"] = Clean("1h", ScenarioBar)
    /\ results["15m"] /\ results["5m"]
    /\ returned = FALSE

\* the clauses of the three rules, stated on the values of the latest bar
Strict1h(b) ==
    /\ b.close > b.MA20
    /\ b.MA10 > b.MA20
    /\ b.MACD_hist > 0
    /\ b.MA20 # 0
    /\ IF b.MA20 > 0 THEN (b.close - b.MA20) * 100 < 2 * b.MA20
                     ELSE (b.close - b.MA20) * 100 > 2 * b.MA20
    /\ b.volume_MA5 > b.volume_MA10

Strict15m(b) ==
    /\ b.MA5 > b.MA10
    /\ b.RSI_7 > 400 /\ b.RSI_7 < 700
    /\ b.volume_ratio > 15
    /\ b.volume_MA5 > b.volume_MA10

Strict5m(b) == b.RSI_7 > b.RSI_7_prev /\ b.MACD_hist > 0

\* C8: every comparison of the rules is strict and each rule is exactly the
\* conjunction of its clauses on the latest bar: a rule is false on each of
\* the listed equalities and true when all its clauses hold strictly.
C8_StrictComparisons ==
    (rule.active /\ ~rule.df.isNone /\ rule.df.rows # <<>>) =>
        LET b == rule.df.latest IN
        /\ ~rule.out.raised
        /\ rule.timeframe = "15m" =>
            /\ ( \/ b.RSI_7 = 400 \/ b.RSI_7 = 700 \/ b.volume_ratio = 15
                 \/ b.MA5 = b.MA10 \/ b.volume_MA5 = b.volume_MA10 )
               => rule.out.ret = FALSE
            /\ rule.out.ret <=> Strict15m(b)
        /\ rule.timeframe = "5m" =>
            /\ (b.RSI_7 = b.RSI_7_prev \/ b.MACD_hist = 0) => rule.out.ret = FALSE
            /\ rule.out.ret <=> Strict5m(b)
        /\ rule.timeframe = "1h" =>
            /\ ( \/ b.close = b.MA20 \/ b.MA10 = b.MA20 \/ b.MACD_hist = 0
                 \/ (b.MA20 # 0 /\ (b.close - b.MA20) * 100 = 2 * b.MA20)
                 \/ b.volume_MA5 = b.volume_MA10 )
               => rule.out.ret = FALSE
            /\ rule.out.ret <=> Strict1h(b)

C8_Witness ==
    /\ rule.active
    /\ rule.timeframe = "15m"
    /\ ~rule.df.isNone /\ rule.df.rows # <<>>
    /\ rule.df.latest.volume_ratio = 15
    /\ rule.df.latest.MA5 > rule.df.latest.MA10
    /\ rule.df.latest.RSI_7 = 500
    /\ rule.df.latest.volume_MA5 > rule.df.latest.volume_MA10
    /\ rule.out.ret = FALSE

\* C9: once the rows with an undefined indicator are dropped, the fetch
\* returns no data if fewer than limit rows remain, and otherwise exactly the
\* limit most recent remaining rows in their original order.
C9_TrailingLimit ==
    call.active =>
        LET rows == call.out.fetch.df.rows
            alive == Survivors(call.a)
        IN  /\ Len(rows) \in {0, DefaultLimit}
            /\ call.out.fetch.df.isNone <=> rows = <<>>
            /\ ~call.out.fetch.df.isNone =>
                /\ Len(rows) = DefaultLimit
                /\ \A k \in 1..Len(rows) : rows[k] \in alive
                /\ \A k \in 1..(Len(rows) - 1) : rows[k] < rows[k + 1]
                /\ \A r \in alive : r > rows[1] => \E k \in 1..Len(rows) : rows[k] = r
                /\ rows[Len(rows)] = CHOOSE r \in alive : \A q \in alive : q <= r
            /\ Cardinality(alive) < DefaultLimit => call.out.fetch.df.isNone
            /\ "warmup" \in {call.out.fetch.gates[k] : k \in 1..Len(call.out.fetch.gates)} =>
                (call.out.fetch.df.isNone <=> Cardinality(alive) < DefaultLimit)

C9_Witness ==
    /\ call.active
    /\ ~call.out.fetch.df.isNone
    /\ call.a.extraNaN # {}
    /\ Cardinality(Survivors(call.a)) > DefaultLimit
    /\ Len(call.out.fetch.df.rows) = DefaultLimit

\* the order of the gates of fetch_market_data
GateOrder == <<"fetch", "rowcount", "freshness", "validate", "indicators", "warmup">>

\* C10: the gates run in the order row count, freshness, field validation,
\* indicator derivation, warm-up length; a stale series that passed the
\* row-count gate is rejected as stale and no indicator is computed on it,
\* even when it also holds an invalid OHLCV field.
C10_GateOrder ==
    call.active =>
        LET gates == call.out.fetch.gates IN
        /\ IsPrefix(gates, GateOrder)
        /\ ( /\ ~call.a.raises
             /\ call.a.n >= DefaultLimit
             /\ Age(call.a) > max_delay(call.timeframe) )
           => /\ call.out.fetch.msg = "stale"
              /\ call.out.fetch.df.isNone
              /\ \A k \in 1..Len(gates) : gates[k] \notin {"validate", "indicators", "warmup"}

C10_Witness ==
    /\ call.active
    /\ ~call.a.raises
    /\ call.a.n >= DefaultLimit
    /\ Age(call.a) > max_delay(call.timeframe)
    /\ call.a.badCols # {}
    /\ call.out.fetch.msg = "stale"

====
